---- MODULE Spec2Model ----
(***************************************************************************)
(* Model of the spaced-repetition CLI (forgetting_curve_cli.py): the item  *)
(* state machine (test_items, update_review_items), the rating estimator   *)
(* (estimate_r), the interval computation and the run/session loop of      *)
(* main().  Dates are day numbers; the string "done" stored in next_review *)
(* is the value DONE, which the string comparison of the code orders after *)
(* every ISO date.                                                         *)
(***************************************************************************)
EXTENDS Integers, Sequences, FiniteSets, TLC

\* ------------------------------------------------------------------------
\* Program constants
\* ------------------------------------------------------------------------
FORGETTING_SCHEDULE == <<1, 2, 3, 7, 15, 30, 60, 90, 120>>
REQUIRED_STREAK == 3
DAILY_TOTAL_LIMIT == 30

\* next_review = "done";  item.get("last_processed_date") = None;
\* previous_key = None
DONE == -1
NO_DATE == -2
NO_KEY == -3

\* ------------------------------------------------------------------------
\* Bounds of the model
\* ------------------------------------------------------------------------
\* incorrect answers an item may receive over its life
MaxWrong == 2
\* days a run may start after a due date
MaxLate == 4
\* last day on which a run starts, in the specification of the first days
MaxDay == 7
\* last day on which a run starts, in the specification of an item's life
MaxLifeDay == 900
\* last day on which a run starts because it is the day after the last run
MaxNextDay == 1
\* answers in a history handed to estimate_r on its own
MaxHistory == 5
\* items by which a group of the store of the cap pass may exceed the limit
MaxExcess == 2
\* incorrect answers all items together may receive in a store of two
MaxPairWrong == 1
\* incorrect answers item 0 may receive in a store of the cap pass
MaxRoundWrong == 1
\* seconds of one day spent at prompts that take a second each
MaxElapsed == 4
\* days a review is late in a call of the interval computation alone
MaxDaysLate == 30
\* days with runs after the day the last review of an item falls due
MaxAfterLast == 2

Min(a, b) == IF a <= b THEN a ELSE b
Max(a, b) == IF a >= b THEN a ELSE b

\* ------------------------------------------------------------------------
\* IEEE-754 double arithmetic (round to nearest, ties to even) on
\* non-negative values, as Python's float performs it.  A natural number is
\* a little-endian sequence of limbs in base 2^12 (TLC's integers are 32-bit);
\* a double is [m |-> limbs, e |-> exponent], of value m * 2^e.
\* ------------------------------------------------------------------------
LimbBits == 12
LimbBase == 2 ^ LimbBits
MantBits == 53

RECURSIVE BigNorm(_)
BigNorm(a) ==
  IF a = <<>> THEN <<>>
  ELSE IF a[Len(a)] = 0 THEN BigNorm(SubSeq(a, 1, Len(a) - 1)) ELSE a

RECURSIVE BigFromInt(_)
BigFromInt(n) ==
  IF n = 0 THEN <<>> ELSE <<n % LimbBase>> \o BigFromInt(n \div LimbBase)

RECURSIVE BigToInt(_)
BigToInt(a) ==
  IF a = <<>> THEN 0 ELSE a[1] + LimbBase * BigToInt(Tail(a))

RECURSIVE BigMulSmallC(_, _, _)
BigMulSmallC(a, c, carry) ==
  IF a = <<>> THEN BigFromInt(carry)
  ELSE LET t == a[1] * c + carry
       IN  <<t % LimbBase>> \o BigMulSmallC(Tail(a), c, t \div LimbBase)

BigMulSmall(a, c) == BigNorm(BigMulSmallC(a, c, 0))

RECURSIVE BigAddC(_, _, _)
BigAddC(a, b, carry) ==
  IF a = <<>> /\ b = <<>> THEN BigFromInt(carry)
  ELSE LET x == IF a = <<>> THEN 0 ELSE a[1]
           y == IF b = <<>> THEN 0 ELSE b[1]
           t == x + y + carry
       IN  <<t % LimbBase>>
             \o BigAddC(IF a = <<>> THEN <<>> ELSE Tail(a),
                        IF b = <<>> THEN <<>> ELSE Tail(b), t \div LimbBase)

BigAdd(a, b) == BigNorm(BigAddC(a, b, 0))

RECURSIVE BigMul(_, _)
BigMul(a, b) ==
  IF a = <<>> \/ b = <<>> THEN <<>>
  ELSE BigAdd(BigMulSmall(a, b[1]),
              LET hi == BigMul(a, Tail(b))
              IN  IF hi = <<>> THEN <<>> ELSE <<0>> \o hi)

\* quotient and remainder of a by the small number c, high limbs first
RECURSIVE BigDivSmall(_, _)
BigDivSmall(a, c) ==
  IF a = <<>> THEN [q |-> <<>>, r |-> 0]
  ELSE LET hi == BigDivSmall(Tail(a), c)
           t  == hi.r * LimbBase + a[1]
       IN  [q |-> <<t \div c>> \o hi.q, r |-> t % c]

RECURSIVE BitLenInt(_)
BitLenInt(n) == IF n = 0 THEN 0 ELSE 1 + BitLenInt(n \div 2)

BigBitLen(a) ==
  IF a = <<>> THEN 0 ELSE LimbBits * (Len(a) - 1) + BitLenInt(a[Len(a)])

Zeros(n) == [i \in 1..n |-> 0]

BigShl(a, k) ==
  IF a = <<>> THEN <<>>
  ELSE Zeros(k \div LimbBits) \o BigMulSmall(a, 2 ^ (k % LimbBits))

\* a shifted right by k bits; sticky tells whether a one was shifted out
BigShr(a, k) ==
  LET d    == Min(k \div LimbBits, Len(a))
      low  == SubSeq(a, 1, d)
      rest == SubSeq(a, d + 1, Len(a))
      dv   == BigDivSmall(rest, 2 ^ (k % LimbBits))
  IN  [q |-> BigNorm(dv.q),
       sticky |-> dv.r # 0 \/ \E i \in 1..d : low[i] # 0]

BigIsOdd(a) == a # <<>> /\ a[1] % 2 = 1

RECURSIVE BigLess(_, _)
BigLess(a, b) ==
  IF Len(a) # Len(b) THEN Len(a) < Len(b)
  ELSE IF a = <<>> THEN FALSE
  ELSE IF a[Len(a)] # b[Len(b)] THEN a[Len(a)] < b[Len(b)]
  ELSE BigLess(SubSeq(a, 1, Len(a) - 1), SubSeq(b, 1, Len(b) - 1))

\* the double nearest to m * 2^e (plus a positive rest below one unit of m
\* when sticky), ties to even
RoundDouble(m, e, sticky) ==
  LET L == BigBitLen(m)
  IN  IF L <= MantBits THEN [m |-> m, e |-> e]
      ELSE LET k  == L - MantBits
               s1 == BigShr(m, k - 1)
               q  == BigShr(s1.q, 1).q
               up == BigIsOdd(s1.q) /\ (s1.sticky \/ sticky \/ BigIsOdd(q))
           IN  [m |-> IF up THEN BigAdd(q, <<1>>) ELSE q, e |-> e + k]

FFromInt(n) == [m |-> BigFromInt(n), e |-> 0]

\* a / b for integers a >= 0, b > 0 (Python's true division)
FDivInt(a, b) ==
  LET k  == 6 * LimbBits
      dv == BigDivSmall(BigShl(BigFromInt(a), k), b)
  IN  RoundDouble(BigNorm(dv.q), 0 - k, dv.r # 0)

FAdd(x, y) ==
  LET e == Min(x.e, y.e)
  IN  RoundDouble(BigAdd(BigShl(x.m, x.e - e), BigShl(y.m, y.e - e)), e, FALSE)

FMul(x, y) == RoundDouble(BigMul(x.m, y.m), x.e + y.e, FALSE)

FLess(x, y) ==
  LET e == Min(x.e, y.e)
  IN  BigLess(BigShl(x.m, x.e - e), BigShl(y.m, y.e - e))

FMax(x, y) == IF FLess(x, y) THEN y ELSE x

\* int(x) for x >= 0
FInt(x) ==
  IF x.e >= 0 THEN BigToInt(BigShl(x.m, x.e))
  ELSE BigToInt(BigShr(x.m, 0 - x.e).q)

\* the double 0.3 = 0x1.3333333333333p-2
F03 == [m |-> <<819, 819, 819, 819, 19>>, e |-> 0 - 54]

\* math.exp(-0.3 * (5 - r)) for the ratings 0..5
ExpDecay(r) ==
  CASE r = 0 -> [m |-> <<3101, 1205, 1906, 2296, 28>>, e |-> 0 - 55]
    [] r = 1 -> [m |-> <<735, 1953, 1046, 1132, 19>>, e |-> 0 - 54]
    [] r = 2 -> [m |-> <<3615, 134, 3264, 83, 26>>, e |-> 0 - 54]
    [] r = 3 -> [m |-> <<1251, 2400, 3435, 2301, 17>>, e |-> 0 - 53]
    [] r = 4 -> [m |-> <<3077, 3127, 2153, 2892, 23>>, e |-> 0 - 53]
    [] r = 5 -> [m |-> <<0, 0, 0, 0, 16>>, e |-> 0 - 52]

\* ------------------------------------------------------------------------
\* Interval computation of update_review_items
\* ------------------------------------------------------------------------
\* a faulty RFactor: the rating is counted from the wrong end
RFactorInverted(r) == FMax(F03, ExpDecay(5 - r))

RFactor(r) == FMax(F03, ExpDecay(r))

\* a faulty LatenessFactor: the operands of the division are swapped
LatenessFactorInverted(days_late, base_days) ==
  IF days_late > 0 THEN FDivInt(base_days, days_late) ELSE FFromInt(0)

LatenessFactor(days_late, base_days) ==
  IF base_days > 0 THEN FDivInt(days_late, base_days) ELSE FFromInt(0)

\* final_interval for the stage already incremented
FinalInterval(stage, r, days_late) ==
  LET base_days     == FORGETTING_SCHEDULE[stage]
      adjusted_by_r == FMul(FFromInt(base_days), RFactor(r))
      factor        == FAdd(FFromInt(1), LatenessFactor(days_late, base_days))
  IN  Max(1, FInt(FMul(adjusted_by_r, factor)))

\* ------------------------------------------------------------------------
\* Rating estimator
\* ------------------------------------------------------------------------
RECURSIVE TrailingCorrect(_)
TrailingCorrect(history) ==
  IF history = <<>> \/ history[Len(history)] # "O" THEN 0
  ELSE 1 + TrailingCorrect(SubSeq(history, 1, Len(history) - 1))

\* history[-5:].count('X')
RecentWrong(history) ==
  Cardinality({i \in 1..Len(history) :
                 i > Len(history) - 5 /\ history[i] = "X"})

\* a faulty estimate_r: a recent incorrect answer lowers the rating
estimate_r_recent(item, is_correct, response_time) ==
  LET x_count  == RecentWrong(item.history)
      o_streak == TrailingCorrect(item.history)
      r == IF ~is_correct THEN 0
           ELSE IF o_streak >= 3 THEN 5
           ELSE IF o_streak = 2 THEN 4
           ELSE IF o_streak = 1 THEN 3
           ELSE 2
  IN  [item |-> [item EXCEPT !.response_times = Append(@, response_time)],
       r |-> IF x_count > 0 /\ r > 2 THEN r - 1 ELSE r]

\* a faulty estimate_r: an incorrect answer returns before its time is kept
estimate_r_untimed(item, is_correct, response_time) ==
  LET o_streak == TrailingCorrect(item.history)
      r == IF ~is_correct THEN 0
           ELSE IF o_streak >= 3 THEN 5
           ELSE IF o_streak = 2 THEN 4
           ELSE IF o_streak = 1 THEN 3
           ELSE 2
  IN  [item |-> IF is_correct
                THEN [item EXCEPT !.response_times = Append(@, response_time)]
                ELSE item,
       r |-> r]

\* estimate_r: the rating, and the item with the response time appended;
\* x_count is computed and not used
estimate_r(item, is_correct, response_time) ==
  LET x_count  == RecentWrong(item.history)
      o_streak == TrailingCorrect(item.history)
      r == IF ~is_correct THEN 0
           ELSE IF o_streak >= 3 THEN 5
           ELSE IF o_streak = 2 THEN 4
           ELSE IF o_streak = 1 THEN 3
           ELSE 2
  IN  [item |-> [item EXCEPT !.response_times = Append(@, response_time)],
       r |-> r]

\* ------------------------------------------------------------------------
\* Items.  The question and answer texts are opaque to the scheduling and
\* are left out; an answer enters as its correctness.
\* ------------------------------------------------------------------------
NewItem(date, from_file) ==
  [status |-> "learning", stage |-> 0, correct_streak |-> 0,
   next_review |-> date, created_at |-> date,
   last_processed_date |-> IF from_file THEN NO_DATE ELSE date,
   postponed |-> FALSE, history |-> <<>>, response_times |-> <<>>,
   error_ratios |-> <<>>, review_log |-> <<>>]

\* a faulty DateLE: "done" sorts before every date
DateLEDoneFirst(a, b) ==
  IF a = DONE THEN TRUE ELSE IF b = DONE THEN FALSE ELSE a <= b

\* "a <= b" on the stored date strings: "done" sorts after every ISO date
DateLE(a, b) ==
  IF a = DONE THEN b = DONE ELSE IF b = DONE THEN TRUE ELSE a <= b

\* a faulty LearnCorrect: the promotion keeps the streak
LearnCorrectKeepsStreak(item, date) ==
  LET streak == item.correct_streak + 1
      it1    == [item EXCEPT !.correct_streak = streak,
                             !.history = Append(@, "O")]
  IN  IF streak >= REQUIRED_STREAK
      THEN [it1 EXCEPT !.status = "review", !.stage = 1,
                       !.next_review = date + FORGETTING_SCHEDULE[1]]
      ELSE it1

\* a faulty LearnCorrect: every correct answer makes the item due today
LearnCorrectDueToday(item, date) ==
  LET streak == item.correct_streak + 1
      it1    == [item EXCEPT !.correct_streak = streak,
                             !.history = Append(@, "O"),
                             !.next_review = date]
  IN  IF streak >= REQUIRED_STREAK
      THEN [it1 EXCEPT !.status = "review", !.stage = 1,
                       !.next_review = date + FORGETTING_SCHEDULE[1],
                       !.correct_streak = 0]
      ELSE it1

\* test_items, correct answer
LearnCorrect(item, date) ==
  LET streak == item.correct_streak + 1
      it1    == [item EXCEPT !.correct_streak = streak,
                             !.history = Append(@, "O")]
  IN  IF streak >= REQUIRED_STREAK
      THEN [it1 EXCEPT !.status = "review", !.stage = 1,
                       !.next_review = date + FORGETTING_SCHEDULE[1],
                       !.correct_streak = 0]
      ELSE it1

\* a faulty LearnIncorrect: the streak is reset
LearnIncorrectResets(item, date) ==
  [item EXCEPT !.history = Append(@, "X"),
               !.correct_streak = 0,
               !.stage = 0, !.status = "learning", !.next_review = date]

\* a faulty LearnIncorrect: the streak is lowered without a floor
LearnIncorrectNoFloor(item, date) ==
  [item EXCEPT !.history = Append(@, "X"),
               !.correct_streak = @ - 1,
               !.stage = 0, !.status = "learning", !.next_review = date]

\* a faulty LearnIncorrect: the streak is kept
LearnIncorrectKeepsStreak(item, date) ==
  [item EXCEPT !.history = Append(@, "X"),
               !.stage = 0, !.status = "learning", !.next_review = date]

\* test_items, incorrect answer
LearnIncorrect(item, date) ==
  [item EXCEPT !.history = Append(@, "X"),
               !.correct_streak = Max(0, @ - 1),
               !.stage = 0, !.status = "learning", !.next_review = date]

\* test_items, one answer
LearnAnswer(item, is_correct, elapsed, date) ==
  LET est == estimate_r(item, is_correct, elapsed)
      it0 == [est.item EXCEPT !.last_processed_date = date]
  IN  IF is_correct THEN LearnCorrect(it0, date) ELSE LearnIncorrect(it0, date)

\* a faulty ReviewCorrect: at the last stage the last interval is scheduled
\* again
ReviewCorrectAgain(item, r, elapsed, date) ==
  LET it1 == [item EXCEPT !.history = Append(@, "O")]
  IN  IF it1.stage < Len(FORGETTING_SCHEDULE)
      THEN LET stage          == it1.stage + 1
               base_days      == FORGETTING_SCHEDULE[stage]
               days_late      == Max(0, date - it1.next_review)
               final_interval == FinalInterval(stage, r, days_late)
           IN  [it1 EXCEPT
                  !.stage = stage,
                  !.review_log = Append(@,
                     [date |-> date, scheduled_interval |-> base_days,
                      actual_interval |-> base_days + days_late,
                      is_correct |-> TRUE, r |-> r,
                      response_time |-> elapsed]),
                  !.next_review = date + final_interval]
      ELSE [it1 EXCEPT
              !.next_review = date + FORGETTING_SCHEDULE[it1.stage]]

\* a faulty ReviewCorrect: the last correct answer resets the stage
ReviewCorrectResetsStage(item, r, elapsed, date) ==
  LET it1 == [item EXCEPT !.history = Append(@, "O")]
  IN  IF it1.stage < Len(FORGETTING_SCHEDULE)
      THEN LET stage          == it1.stage + 1
               base_days      == FORGETTING_SCHEDULE[stage]
               days_late      == Max(0, date - it1.next_review)
               final_interval == FinalInterval(stage, r, days_late)
           IN  [it1 EXCEPT
                  !.stage = stage,
                  !.review_log = Append(@,
                     [date |-> date, scheduled_interval |-> base_days,
                      actual_interval |-> base_days + days_late,
                      is_correct |-> TRUE, r |-> r,
                      response_time |-> elapsed]),
                  !.next_review = date + final_interval]
      ELSE [it1 EXCEPT !.next_review = DONE, !.stage = 0]

\* a faulty ReviewCorrect: the interval is counted from the due date
ReviewCorrectFromDue(item, r, elapsed, date) ==
  LET it1 == [item EXCEPT !.history = Append(@, "O")]
  IN  IF it1.stage < Len(FORGETTING_SCHEDULE)
      THEN LET stage          == it1.stage + 1
               base_days      == FORGETTING_SCHEDULE[stage]
               days_late      == Max(0, date - it1.next_review)
               final_interval == FinalInterval(stage, r, days_late)
           IN  [it1 EXCEPT
                  !.stage = stage,
                  !.review_log = Append(@,
                     [date |-> date, scheduled_interval |-> base_days,
                      actual_interval |-> base_days + days_late,
                      is_correct |-> TRUE, r |-> r,
                      response_time |-> elapsed]),
                  !.next_review = it1.next_review + final_interval]
      ELSE [it1 EXCEPT !.next_review = DONE]

\* update_review_items, correct answer
ReviewCorrect(item, r, elapsed, date) ==
  LET it1 == [item EXCEPT !.history = Append(@, "O")]
  IN  IF it1.stage < Len(FORGETTING_SCHEDULE)
      THEN LET stage          == it1.stage + 1
               base_days      == FORGETTING_SCHEDULE[stage]
               days_late      == Max(0, date - it1.next_review)
               final_interval == FinalInterval(stage, r, days_late)
           IN  [it1 EXCEPT
                  !.stage = stage,
                  !.review_log = Append(@,
                     [date |-> date, scheduled_interval |-> base_days,
                      actual_interval |-> base_days + days_late,
                      is_correct |-> TRUE, r |-> r,
                      response_time |-> elapsed]),
                  !.next_review = date + final_interval]
      ELSE [it1 EXCEPT !.next_review = DONE]

\* a faulty ReviewIncorrect: the stage is kept
ReviewIncorrectKeepsStage(item, r, elapsed, date) ==
  [item EXCEPT
     !.history = Append(@, "X"),
     !.status = "learning", !.correct_streak = 0,
     !.review_log = Append(@,
        [date |-> date, scheduled_interval |-> 0,
         actual_interval |-> date - item.next_review,
         is_correct |-> FALSE, r |-> r, response_time |-> elapsed]),
     !.next_review = date]

\* a faulty ReviewIncorrect: the due date is kept
ReviewIncorrectKeepsDue(item, r, elapsed, date) ==
  [item EXCEPT
     !.history = Append(@, "X"),
     !.status = "learning", !.correct_streak = 0, !.stage = 0,
     !.review_log = Append(@,
        [date |-> date, scheduled_interval |-> 0,
         actual_interval |-> date - item.next_review,
         is_correct |-> FALSE, r |-> r, response_time |-> elapsed])]

\* update_review_items, incorrect answer
ReviewIncorrect(item, r, elapsed, date) ==
  [item EXCEPT
     !.history = Append(@, "X"),
     !.status = "learning", !.correct_streak = 0, !.stage = 0,
     !.review_log = Append(@,
        [date |-> date, scheduled_interval |-> 0,
         actual_interval |-> date - item.next_review,
         is_correct |-> FALSE, r |-> r, response_time |-> elapsed]),
     !.next_review = date]

\* update_review_items, one answer
ReviewAnswer(item, is_correct, elapsed, date) ==
  LET est == estimate_r(item, is_correct, elapsed)
  IN  IF is_correct THEN ReviewCorrect(est.item, est.r, elapsed, date)
      ELSE ReviewIncorrect(est.item, est.r, elapsed, date)

\* ------------------------------------------------------------------------
\* State
\* ------------------------------------------------------------------------
VARIABLES
  items,            \* the items dictionary of the running process
  daily_stats,      \* the daily_stats dictionary of the running process
  disk,             \* memory_data.json: [items, daily_stats]
  today,            \* DATE_TODAY of the current (or last) run
  elapsed_today,    \* accumulated seconds of the running process
  pc,               \* "idle" (no process), "learn" or "review" (at a prompt)
  cur,              \* the key whose question is shown
  queue,            \* keys of the shuffled pass still to be shown
  previous_key,     \* previous_key of test_items / update_review_items
  learning_keys_for_session,
  review_keys_for_session,
  call              \* a function application under check, [op |-> "none"] here

vars == <<items, daily_stats, disk, today, elapsed_today, pc, cur, queue,
          previous_key, learning_keys_for_session, review_keys_for_session,
          call>>

NoCall == [op |-> "none"]

Keys(its) == DOMAIN its

\* d.get(date, 0)
StatsGet(stats, date) == IF date \in DOMAIN stats THEN stats[date] ELSE 0

\* d[date] = v
StatsSet(stats, date, v) ==
  [x \in DOMAIN stats \cup {date} |-> IF x = date THEN v ELSE stats[x]]

\* save_data(items, daily_stats)
save_data(m) ==
  [m EXCEPT !.disk = [items |-> m.items, daily_stats |-> m.daily_stats]]

\* ------------------------------------------------------------------------
\* Due sets and the daily cap (main, get_learning_items)
\* ------------------------------------------------------------------------
IsDueLearning(it) ==
  it.status = "learning" /\ it.correct_streak < REQUIRED_STREAK

IsDueReview(it, date) ==
  it.status = "review" /\ DateLE(it.next_review, date)

\* place of a due item in combined_due_items: items created today, then the
\* other learning items by created_at, then the due review items; the
\* dictionary keeps its keys in insertion order, which is ascending
DueClass(it, date) ==
  IF IsDueLearning(it) THEN (IF it.created_at = date THEN 0 ELSE 1) ELSE 2

DueBefore(its, j, k, date) ==
  LET cj == DueClass(its[j], date)
      ck == DueClass(its[k], date)
      sj == IF cj = 1 THEN its[j].created_at ELSE 0
      sk == IF ck = 1 THEN its[k].created_at ELSE 0
  IN  \/ cj < ck
      \/ cj = ck /\ sj < sk
      \/ cj = ck /\ sj = sk /\ j < k

CombinedDue(its, date) ==
  {k \in Keys(its) : IsDueLearning(its[k]) \/ IsDueReview(its[k], date)}

\* index of k in combined_due_items, from 0
DueIndex(its, k, date) ==
  Cardinality({j \in CombinedDue(its, date) : DueBefore(its, j, k, date)})

\* a faulty ApplyDailyLimit: a postponed item is made due the next day
ApplyDailyLimitDefers(its, date) ==
  [k \in Keys(its) |->
     IF k \in CombinedDue(its, date)
     THEN IF DueIndex(its, k, date) < DAILY_TOTAL_LIMIT
          THEN [its[k] EXCEPT !.postponed = FALSE]
          ELSE [its[k] EXCEPT !.postponed = TRUE, !.next_review = date + 1]
     ELSE its[k]]

\* a faulty ApplyDailyLimit: one item more is kept
ApplyDailyLimitInclusive(its, date) ==
  [k \in Keys(its) |->
     IF k \in CombinedDue(its, date)
     THEN [its[k] EXCEPT
             !.postponed = ~(DueIndex(its, k, date) <= DAILY_TOTAL_LIMIT)]
     ELSE its[k]]

\* the loop "Apply DAILY_TOTAL_LIMIT"
ApplyDailyLimit(its, date) ==
  [k \in Keys(its) |->
     IF k \in CombinedDue(its, date)
     THEN [its[k] EXCEPT
             !.postponed = ~(DueIndex(its, k, date) < DAILY_TOTAL_LIMIT)]
     ELSE its[k]]

\* a faulty ResetPostponed: an item without last_processed_date is left
\* postponed
ResetPostponedDated(its, date) ==
  [k \in Keys(its) |->
     IF /\ its[k].postponed
        /\ its[k].last_processed_date # NO_DATE
        /\ its[k].last_processed_date # date
     THEN [its[k] EXCEPT !.postponed = FALSE]
     ELSE its[k]]

\* the reset of the postponed flags at the start of main
ResetPostponed(its, date) ==
  [k \in Keys(its) |->
     IF its[k].postponed /\ its[k].last_processed_date # date
     THEN [its[k] EXCEPT !.postponed = FALSE]
     ELSE its[k]]

\* a faulty SessionLearning: postponed items are taken too
SessionLearningPostponed(its) ==
  {k \in Keys(its) : its[k].status = "learning"}

SessionLearning(its) ==
  {k \in Keys(its) : its[k].status = "learning" /\ ~its[k].postponed}

\* a faulty SessionReview: postponed items are taken too
SessionReviewPostponed(its, date) ==
  {k \in Keys(its) : IsDueReview(its[k], date)}

SessionReview(its, date) ==
  {k \in Keys(its) : IsDueReview(its[k], date) /\ ~its[k].postponed}

\* add_new_items: n new items under the keys max+1, max+2, ...
NextKey(its) ==
  IF Keys(its) = {} THEN 0
  ELSE (CHOOSE k \in Keys(its) : \A j \in Keys(its) : j <= k) + 1

\* a faulty AddItems: the ids start at the highest id in use
AddItemsOver(its, n, date, from_file) ==
  LET first == IF Keys(its) = {} THEN 0 ELSE NextKey(its) - 1
  IN  [k \in Keys(its) \cup (first .. first + n - 1) |->
         IF k \in first .. first + n - 1 THEN NewItem(date, from_file)
         ELSE its[k]]

AddItems(its, n, date, from_file) ==
  LET first == NextKey(its)
  IN  [k \in Keys(its) \cup (first .. first + n - 1) |->
         IF k \in Keys(its) THEN its[k] ELSE NewItem(date, from_file)]

\* ------------------------------------------------------------------------
\* Control flow of main, test_items and update_review_items between two
\* prompts.  m is the state of the process: [items, daily_stats, disk,
\* elapsed_today, pc, queue, previous_key, lks, rks]; queue holds the keys
\* the pass has still to show.
\* ------------------------------------------------------------------------
\* the process ends: only the file remains
Exit(m) ==
  [m EXCEPT !.pc = "idle", !.queue = {}, !.previous_key = NO_KEY,
            !.lks = {}, !.rks = {}, !.elapsed_today = 0,
            !.items = m.disk.items, !.daily_stats = m.disk.daily_stats]

\* a faulty Finish: only the seconds of this run are stored
FinishThisRun(m, date) ==
  Exit(save_data([m EXCEPT
         !.daily_stats = StatsSet(@, date,
            m.elapsed_today - StatsGet(m.disk.daily_stats, date))]))

\* the end of main, after the session loop
Finish(m, date) ==
  Exit(save_data([m EXCEPT
         !.daily_stats = StatsSet(@, date, m.elapsed_today)]))

\* a faulty LoopTop: the loop ends as soon as no learning item is left
LoopTopLearningOnly(m, date) ==
  LET lks == SessionLearning(m.items)
      rks == SessionReview(m.items, date)
      m1  == [m EXCEPT !.lks = lks, !.rks = rks, !.previous_key = NO_KEY]
  IN  IF lks = {} THEN Finish(m, date)
      ELSE [m1 EXCEPT !.pc = "learn", !.queue = lks]

\* the top of the session loop: "while True: ..."
LoopTop(m, date) ==
  LET lks == SessionLearning(m.items)
      rks == SessionReview(m.items, date)
      m1  == [m EXCEPT !.lks = lks, !.rks = rks, !.previous_key = NO_KEY]
  IN  IF lks = {} /\ rks = {} THEN Finish(m, date)
      ELSE IF lks # {} THEN [m1 EXCEPT !.pc = "learn", !.queue = lks]
      ELSE [m1 EXCEPT !.pc = "review", !.queue = rks]

\* the end of update_review_items and of the loop body
AfterReviewPass(m, date) == LoopTop(save_data(m), date)

\* a faulty StartReview: the session ends when test_items has returned
StartReviewSkipped(m, date) == Finish(save_data(m), date)

\* test_items has returned: "if review_keys_for_session: ..."
StartReview(m, date) ==
  LET review_targets ==
        {k \in m.rks : IsDueReview(m.items[k], date) /\ ~m.items[k].postponed}
  IN  IF m.rks = {} THEN LoopTop(save_data(m), date)
      ELSE IF review_targets = {} THEN AfterReviewPass(m, date)
      ELSE [m EXCEPT !.pc = "review", !.queue = review_targets,
                     !.previous_key = NO_KEY]

\* a faulty AfterLearnPrompt: test_items returns after one pass
AfterLearnPromptOnePass(m, date) ==
  IF m.queue # {} THEN m ELSE StartReview(save_data(m), date)

\* test_items after one prompt: next key of the pass, or the next pass
AfterLearnPrompt(m, date) ==
  IF m.queue # {} THEN m
  ELSE LET m1 == save_data(m)
           learning_keys ==
             {k \in m1.lks : m1.items[k].status = "learning"
                             /\ ~m1.items[k].postponed}
       IN  IF learning_keys # {} THEN [m1 EXCEPT !.queue = learning_keys]
           ELSE StartReview(m1, date)

\* update_review_items after one prompt
AfterReviewPrompt(m, date) ==
  IF m.queue # {} THEN m ELSE AfterReviewPass(m, date)

AfterPrompt(m, date) ==
  IF m.pc = "learn" THEN AfterLearnPrompt(m, date)
  ELSE AfterReviewPrompt(m, date)

\* the process state as a record, without the key shown
Machine ==
  [items |-> items, daily_stats |-> daily_stats, disk |-> disk,
   elapsed_today |-> elapsed_today, pc |-> pc, queue |-> queue,
   previous_key |-> previous_key, lks |-> learning_keys_for_session,
   rks |-> review_keys_for_session]

\* the next state from m: random.shuffle leaves any key of the pass first
Become(m) ==
  /\ items' = m.items
  /\ daily_stats' = m.daily_stats
  /\ disk' = m.disk
  /\ elapsed_today' = m.elapsed_today
  /\ pc' = m.pc
  /\ previous_key' = m.previous_key
  /\ learning_keys_for_session' = m.lks
  /\ review_keys_for_session' = m.rks
  /\ IF m.pc = "idle" THEN cur' = NO_KEY /\ queue' = {}
     ELSE \E k \in m.queue : cur' = k /\ queue' = m.queue \ {k}
  /\ call' = call

\* ------------------------------------------------------------------------
\* Actions
\* ------------------------------------------------------------------------
\* a faulty Startup: the pairs of a file with an odd number of lines are
\* added up to the line without a partner
StartupPartial(d, mode, n, from_file, odd) ==
  LET date  == today + d
      m0    == [items |-> disk.items, daily_stats |-> disk.daily_stats,
                disk |-> disk,
                elapsed_today |-> StatsGet(disk.daily_stats, date),
                pc |-> "idle", queue |-> {}, previous_key |-> NO_KEY,
                lks |-> {}, rks |-> {}]
      its1  == ResetPostponed(m0.items, date)
      m1    == IF its1 # m0.items THEN save_data([m0 EXCEPT !.items = its1])
               ELSE m0
      kept  == {k \in Keys(m1.items) : m1.items[k].created_at # date}
      mdel  == save_data([m1 EXCEPT !.items = [k \in kept |-> m1.items[k]]])
      added == n > 0
      m2    == IF added
               THEN save_data([m1 EXCEPT
                      !.items = AddItems(@, n, date, from_file)])
               ELSE m1
      m3    == save_data([m2 EXCEPT !.items = ApplyDailyLimit(@, date)])
  IN  IF mode = "delete_today" THEN Exit(mdel)
      ELSE IF mode = "today" THEN Exit(m3)
      ELSE LoopTop(m3, date)

\* main() from the start of the process to its first prompt or its exit, d
\* days after the previous run.  mode: "normal", "today" (-today) or
\* "delete_today" (-delete-today); n question/answer pairs are added, from a
\* file or at the prompt; odd: the file has an odd number of lines.
Startup(d, mode, n, from_file, odd) ==
  LET date  == today + d
      m0    == [items |-> disk.items, daily_stats |-> disk.daily_stats,
                disk |-> disk,
                elapsed_today |-> StatsGet(disk.daily_stats, date),
                pc |-> "idle", queue |-> {}, previous_key |-> NO_KEY,
                lks |-> {}, rks |-> {}]
      its1  == ResetPostponed(m0.items, date)
      m1    == IF its1 # m0.items THEN save_data([m0 EXCEPT !.items = its1])
               ELSE m0
      kept  == {k \in Keys(m1.items) : m1.items[k].created_at # date}
      mdel  == save_data([m1 EXCEPT !.items = [k \in kept |-> m1.items[k]]])
      added == n > 0 /\ ~(from_file /\ odd)
      m2    == IF added
               THEN save_data([m1 EXCEPT
                      !.items = AddItems(@, n, date, from_file)])
               ELSE m1
      m3    == save_data([m2 EXCEPT !.items = ApplyDailyLimit(@, date)])
  IN  IF mode = "delete_today" THEN Exit(mdel)
      ELSE IF mode = "today" THEN Exit(m3)
      ELSE LoopTop(m3, date)

StartRun(d, mode, n, from_file, odd) ==
  /\ pc = "idle"
  /\ today' = today + d
  /\ Become(Startup(d, mode, n, from_file, odd))

CountWrong(history) == Cardinality({i \in 1..Len(history) : history[i] = "X"})

\* an answer at a prompt of test_items
AnswerLearning(is_correct, elapsed) ==
  /\ pc = "learn"
  /\ is_correct \/ CountWrong(items[cur].history) < MaxWrong
  /\ UNCHANGED today
  /\ Become(AfterLearnPrompt(
       [Machine EXCEPT
          !.elapsed_today = @ + elapsed,
          !.items[cur] = LearnAnswer(@, is_correct, elapsed, today),
          !.previous_key = cur], today))

\* an answer at a prompt of update_review_items
AnswerReview(is_correct, elapsed) ==
  /\ pc = "review"
  /\ is_correct \/ CountWrong(items[cur].history) < MaxWrong
  /\ UNCHANGED today
  /\ Become(AfterReviewPrompt(
       [Machine EXCEPT
          !.elapsed_today = @ + elapsed,
          !.items[cur] = ReviewAnswer(@, is_correct, elapsed, today),
          !.previous_key = cur], today))

\* a faulty EditNow: the item edited is put back into the pass
EditNowAgain(elapsed) ==
  /\ pc \in {"learn", "review"}
  /\ UNCHANGED today
  /\ Become(AfterPrompt(
       save_data([Machine EXCEPT !.elapsed_today = @ + elapsed,
                                 !.queue = @ \cup {cur}]), today))

\* "!edit_now": edit_item saves the data, the item is skipped
EditNow(elapsed) ==
  /\ pc \in {"learn", "review"}
  /\ UNCHANGED today
  /\ Become(AfterPrompt(
       save_data([Machine EXCEPT !.elapsed_today = @ + elapsed]), today))

\* "!edit_before": edits the previous item if there is one
EditBefore(elapsed) ==
  /\ pc \in {"learn", "review"}
  /\ UNCHANGED today
  /\ LET m == [Machine EXCEPT !.elapsed_today = @ + elapsed]
     IN  Become(AfterPrompt(
           IF previous_key # NO_KEY THEN save_data(m) ELSE m, today))

\* a faulty Pause: the time spent at the paused prompt is not counted
PauseUncounted(elapsed) ==
  /\ pc \in {"learn", "review"}
  /\ UNCHANGED today
  /\ Become(Exit(save_data(
       [Machine EXCEPT
          !.daily_stats = StatsSet(@, today, elapsed_today)])))

\* "!pause"
Pause(elapsed) ==
  /\ pc \in {"learn", "review"}
  /\ UNCHANGED today
  /\ Become(Exit(save_data(
       [Machine EXCEPT
          !.elapsed_today = @ + elapsed,
          !.daily_stats = StatsSet(@, today, elapsed_today + elapsed)])))

\* ------------------------------------------------------------------------
\* Specifications
\* ------------------------------------------------------------------------
EmptyFn == [x \in {} |-> 0]

Init ==
  /\ items = EmptyFn
  /\ daily_stats = EmptyFn
  /\ disk = [items |-> EmptyFn, daily_stats |-> EmptyFn]
  /\ today = 0
  /\ elapsed_today = 0
  /\ pc = "idle"
  /\ cur = NO_KEY
  /\ queue = {}
  /\ previous_key = NO_KEY
  /\ learning_keys_for_session = {}
  /\ review_keys_for_session = {}
  /\ call = NoCall

\* the days on which the next run may start: the day of the last run again,
\* the day after it while an item is in learning (up to day next_until), or
\* the due date of an item in review, up to late_max days late; none after
\* last_day
RunDays(next_until, late_max, last_day) ==
  LET its == disk.items
  IN  {date \in {today}
         \cup {today + 1 : k \in {j \in Keys(its) :
                                    /\ its[j].status = "learning"
                                    /\ today + 1 <= next_until}}
         \cup {its[x[1]].next_review + x[2] :
                 x \in {y \in Keys(its) \X (0..late_max) :
                          /\ its[y[1]].status = "review"
                          /\ its[y[1]].next_review # DONE}} :
        today <= date /\ date <= last_day}

\* the runs of the program: the command line and the pairs entered, the
\* store never holding more than capacity items
StartRuns(days, modes, capacity) ==
  \E date \in days, mode \in modes, n \in 0..capacity,
     from_file \in BOOLEAN, odd \in BOOLEAN :
    /\ Cardinality(Keys(disk.items)) + n <= capacity
    /\ odd => from_file
    /\ StartRun(date - today, mode, n, from_file, odd)

\* what is typed at a prompt, with the seconds it takes
Prompts(answer_times, command_times) ==
  \/ \E is_correct \in BOOLEAN, elapsed \in answer_times :
       AnswerLearning(is_correct, elapsed)
  \/ \E is_correct \in BOOLEAN, elapsed \in answer_times :
       AnswerReview(is_correct, elapsed)
  \/ \E elapsed \in command_times : EditNow(elapsed)
  \/ \E elapsed \in command_times : EditBefore(elapsed)
  \/ \E elapsed \in command_times : Pause(elapsed)

Modes == {"normal", "today", "delete_today"}

\* The first week of one item: reviews are taken up to MaxLate days late.
Next ==
  \/ StartRuns(RunDays(0, MaxLate, MaxDay), {"normal", "today"}, 1)
  \/ Prompts({0}, {0})

Spec == Init /\ [][Next]_vars

\* Learning over several days: a run may start on the day after the last
\* one while the item is in learning, an answer takes a second.
NextLearn ==
  \/ StartRuns(RunDays(MaxNextDay, 0, MaxNextDay), {"normal", "today"}, 1)
  \/ Prompts({1}, {0})

SpecLearn == Init /\ [][NextLearn]_vars

\* The life of one item up to the end of the schedule: every review is
\* taken on the day it falls due, the item may be deleted and entered again.
NextLife ==
  \/ StartRuns(RunDays(0, 0, MaxLifeDay), Modes, 1)
  \/ Prompts({0}, {0})

SpecLife == Init /\ [][NextLife]_vars

\* estimate_r on its own: one call on an item with any history of up to
\* MaxHistory answers
Histories == UNION {[1..n -> {"O", "X"}] : n \in 0..MaxHistory}

InitRating ==
  /\ items = EmptyFn
  /\ daily_stats = EmptyFn
  /\ disk = [items |-> EmptyFn, daily_stats |-> EmptyFn]
  /\ today = 0
  /\ elapsed_today = 0
  /\ pc = "idle"
  /\ cur = NO_KEY
  /\ queue = {}
  /\ previous_key = NO_KEY
  /\ learning_keys_for_session = {}
  /\ review_keys_for_session = {}
  /\ \E history \in Histories, is_correct \in BOOLEAN, response_time \in 0..1 :
       call = [op |-> "estimate_r",
               item |-> [NewItem(0, FALSE) EXCEPT !.history = history],
               is_correct |-> is_correct, response_time |-> response_time]

CallEstimateR ==
  /\ call.op = "estimate_r"
  /\ call' = [op |-> "estimate_r_returned", item |-> call.item,
              is_correct |-> call.is_correct,
              response_time |-> call.response_time,
              result |-> estimate_r(call.item, call.is_correct,
                                    call.response_time)]
  /\ UNCHANGED <<items, daily_stats, disk, today, elapsed_today, pc, cur,
                 queue, previous_key, learning_keys_for_session,
                 review_keys_for_session>>

NextRating == CallEstimateR

SpecRating == InitRating /\ [][NextRating]_vars

\* The interval computation of update_review_items on its own: one
\* computation for any stage of the schedule, any rating and a review up to
\* MaxDaysLate days late.
InitInterval ==
  /\ items = EmptyFn
  /\ daily_stats = EmptyFn
  /\ disk = [items |-> EmptyFn, daily_stats |-> EmptyFn]
  /\ today = 0
  /\ elapsed_today = 0
  /\ pc = "idle"
  /\ cur = NO_KEY
  /\ queue = {}
  /\ previous_key = NO_KEY
  /\ learning_keys_for_session = {}
  /\ review_keys_for_session = {}
  /\ \E stage \in 1..Len(FORGETTING_SCHEDULE), r \in 0..5,
        days_late \in 0..MaxDaysLate :
       call = [op |-> "final_interval", stage |-> stage, r |-> r,
               days_late |-> days_late]

CallFinalInterval ==
  /\ call.op = "final_interval"
  /\ call' = [op |-> "final_interval_returned", stage |-> call.stage,
              r |-> call.r, days_late |-> call.days_late,
              result |-> FinalInterval(call.stage, call.r, call.days_late)]
  /\ UNCHANGED <<items, daily_stats, disk, today, elapsed_today, pc, cur,
                 queue, previous_key, learning_keys_for_session,
                 review_keys_for_session>>

NextInterval == CallFinalInterval

SpecInterval == InitInterval /\ [][NextInterval]_vars

\* The cap pass on a large store.  The file holds n_old items entered on
\* days 0 and 1, in states the program leaves items in, as the cap pass of
\* the last run of day 1 left it.  A run of day 2 adds items and exits
\* after the cap pass (-today), or deletes the items of the day
\* (-delete-today).
CapSizes ==
  {0, 1, 2, DAILY_TOTAL_LIMIT \div 2}
    \cup ((DAILY_TOTAL_LIMIT - 1)..(DAILY_TOTAL_LIMIT + MaxExcess))

\* an item read from a file on day created and answered correctly streak
\* times on that day
OldLearning(created, streak) ==
  [NewItem(created, TRUE) EXCEPT
     !.correct_streak = streak,
     !.history = [i \in 1..streak |-> "O"],
     !.response_times = [i \in 1..streak |-> 0],
     !.last_processed_date = IF streak = 0 THEN NO_DATE ELSE created]

\* an item entered and promoted on day created
OldPromoted(created) ==
  LearnAnswer(OldLearning(created, REQUIRED_STREAK - 1), TRUE, 0, created)

\* an item entered and promoted on day created and reviewed the day after
OldReviewed(created) ==
  ReviewAnswer(OldPromoted(created), TRUE, 0, created + 1)

\* the k-th item of a store of n items laid out by pattern
OldItem(pattern, k, n) ==
  LET created == IF 2 * k < n THEN 0 ELSE 1
  IN  CASE pattern = "learning" -> OldLearning(created, k % 3)
        [] pattern = "review"   -> OldPromoted(0)
        [] OTHER ->
             IF k % 3 = 0 THEN OldPromoted(created)
             ELSE IF k % 3 = 1 THEN OldLearning(created, k % 2)
             ELSE OldReviewed(0)

OldStore(pattern, n) ==
  ApplyDailyLimit([k \in 0..(n - 1) |-> OldItem(pattern, k, n)], 1)

InitCap ==
  /\ daily_stats = EmptyFn
  /\ \E n_old \in CapSizes, pattern \in {"learning", "review", "mixed"} :
       disk = [items |-> OldStore(pattern, n_old), daily_stats |-> EmptyFn]
  /\ items = disk.items
  /\ today = 1
  /\ elapsed_today = 0
  /\ pc = "idle"
  /\ cur = NO_KEY
  /\ queue = {}
  /\ previous_key = NO_KEY
  /\ learning_keys_for_session = {}
  /\ review_keys_for_session = {}
  /\ call = NoCall

\* the first run of day 2 with -today, adding n new items
FirstCapRun ==
  \E n \in CapSizes, from_file \in BOOLEAN :
    /\ today = 1
    /\ StartRun(1, "today", n, from_file, FALSE)

\* a later run of day 2 with -today
SecondCapRun ==
  /\ today = 2
  /\ StartRun(0, "today", 0, FALSE, FALSE)

\* a run of day 2 with -delete-today
DeleteRun ==
  \E d \in 0..1 :
    /\ today + d = 2
    /\ StartRun(d, "delete_today", 0, FALSE, FALSE)

NextCap == FirstCapRun \/ SecondCapRun \/ DeleteRun

SpecCap == InitCap /\ [][NextCap]_vars

\* Busy days: runs of days 0 to MaxNextDay that read one item or
\* DAILY_TOTAL_LIMIT items from a file, every answer correct, every shuffle
\* leaving the keys in ascending order.
DayRuns ==
  \E date \in RunDays(MaxNextDay, 0, MaxNextDay),
     n \in {0, 1, DAILY_TOTAL_LIMIT} :
    /\ Cardinality(Keys(disk.items)) + n <= DAILY_TOTAL_LIMIT + 1
    /\ StartRun(date - today, "normal", n, TRUE, FALSE)

AscendingShuffle == pc' # "idle" => \A k \in queue' : cur' < k

NextDay ==
  \/ DayRuns /\ AscendingShuffle
  \/ AnswerLearning(TRUE, 0) /\ AscendingShuffle
  \/ AnswerReview(TRUE, 0) /\ AscendingShuffle

SpecDay == Init /\ [][NextDay]_vars

\* Sessions over two items: the rounds of days 0 to MaxNextDay with every
\* command, reviews taken on the day they fall due, no more than
\* MaxPairWrong incorrect answers.
TotalWrong ==
  Cardinality(UNION {{k} \X {i \in 1..Len(items[k].history) :
                              items[k].history[i] = "X"} :
                     k \in DOMAIN items})

NextPair ==
  \/ StartRuns(RunDays(0, 0, MaxNextDay), {"normal"}, 2)
  \/ \E is_correct \in BOOLEAN :
       /\ is_correct \/ TotalWrong < MaxPairWrong
       /\ AnswerLearning(is_correct, 0)
  \/ \E is_correct \in BOOLEAN :
       /\ is_correct \/ TotalWrong < MaxPairWrong
       /\ AnswerReview(is_correct, 0)
  \/ EditNow(0)
  \/ EditBefore(0)
  \/ Pause(0)

SpecPair == Init /\ [][NextPair]_vars

\* something is typed at a prompt: input() returns
Typed == Pause(0) \/ (pc # "idle" /\ NextPair)

\* The same sessions with a user who types answers only, no more than
\* MaxPairWrong of them incorrect, so that from some point on every answer
\* is correct, and who does not leave a prompt waiting for ever: the
\* program is sequential and blocks only in input().
NextPairAnswers ==
  \/ StartRuns(RunDays(0, 0, MaxNextDay), {"normal"}, 2)
  \/ \E is_correct \in BOOLEAN :
       /\ is_correct \/ TotalWrong < MaxPairWrong
       /\ AnswerLearning(is_correct, 0)
  \/ \E is_correct \in BOOLEAN :
       /\ is_correct \/ TotalWrong < MaxPairWrong
       /\ AnswerReview(is_correct, 0)

SpecPairFair ==
  /\ Init
  /\ [][NextPairAnswers]_vars
  /\ WF_vars(Typed)

\* Sessions over the stores of the cap pass, on the day the store was left
\* or the day after: the passes are taken in key order, and the incorrect
\* answers (MaxRoundWrong at most) and the commands are typed at the
\* prompts of item 0.
RoundRun ==
  \E d \in 0..1 :
    /\ today + d <= 2
    /\ StartRun(d, "normal", 0, FALSE, FALSE)

NextRound ==
  \/ RoundRun /\ AscendingShuffle
  \/ \E is_correct \in BOOLEAN :
       /\ is_correct \/ (cur = 0 /\ CountWrong(items[0].history) < MaxRoundWrong)
       /\ AnswerLearning(is_correct, 0)
       /\ AscendingShuffle
  \/ \E is_correct \in BOOLEAN :
       /\ is_correct \/ (cur = 0 /\ CountWrong(items[0].history) < MaxRoundWrong)
       /\ AnswerReview(is_correct, 0)
       /\ AscendingShuffle
  \/ cur = 0 /\ EditNow(0) /\ AscendingShuffle
  \/ cur = 0 /\ EditBefore(0) /\ AscendingShuffle
  \/ cur = 0 /\ Pause(0)

SpecRound == InitCap /\ [][NextRound]_vars

\* Timed sessions over two items on days 0 to MaxNextDay: every prompt,
\* answered or given a command, takes one second, up to MaxElapsed seconds
\* a day and MaxPairWrong incorrect answers in all; every mode of the
\* command line.
NextTimed ==
  \/ StartRuns(RunDays(0, 0, MaxNextDay), Modes, 2)
  \/ \E is_correct \in BOOLEAN :
       /\ elapsed_today < MaxElapsed
       /\ is_correct \/ TotalWrong < MaxPairWrong
       /\ AnswerLearning(is_correct, 1)
  \/ \E is_correct \in BOOLEAN :
       /\ elapsed_today < MaxElapsed
       /\ is_correct \/ TotalWrong < MaxPairWrong
       /\ AnswerReview(is_correct, 1)
  \/ elapsed_today < MaxElapsed /\ EditNow(1)
  \/ elapsed_today < MaxElapsed /\ EditBefore(1)
  \/ elapsed_today < MaxElapsed /\ Pause(1)

SpecTimed == Init /\ [][NextTimed]_vars

\* DBManager.update_item_after_session on its own.  The table holds the row
\* of item 0 as it was before an answer, memory holds the item after the
\* answer, and the caller passes every field of the item as updates; the
\* list fields are stored as JSON text.
JsonFields == {"history", "response_times", "error_ratios", "review_log"}

\* json.dumps of a list: the text that stands for it
JsonDumps(value) == [json |-> value]

\* UPDATE items SET k = ? ... WHERE item_id = ?, committed
UpdateRow(row, updates) ==
  [f \in DOMAIN row |->
     IF f \notin DOMAIN updates THEN row[f]
     ELSE IF f \in JsonFields THEN JsonDumps(updates[f])
     ELSE updates[f]]

\* the row of an item whose fields were all written
RowOf(item) == UpdateRow(item, item)

\* the items an answer can be given to on day date, and the item after it
AnsweredItems(date) ==
  {[before |-> OldLearning(0, streak),
    after  |-> LearnAnswer(OldLearning(0, streak), is_correct, elapsed, date)] :
     streak \in 0..(REQUIRED_STREAK - 1), is_correct \in BOOLEAN,
     elapsed \in 0..1}
  \cup
  {[before |-> old,
    after  |-> ReviewAnswer(old, is_correct, elapsed, date)] :
     old \in {OldPromoted(0), OldReviewed(0)}, is_correct \in BOOLEAN,
     elapsed \in 0..1}

InitDb ==
  /\ daily_stats = EmptyFn
  /\ elapsed_today = 0
  /\ pc = "idle"
  /\ cur = NO_KEY
  /\ queue = {}
  /\ previous_key = NO_KEY
  /\ learning_keys_for_session = {}
  /\ review_keys_for_session = {}
  /\ \E date \in 1..(1 + MaxLate) :
       /\ today = date
       /\ \E answered \in AnsweredItems(date) :
            /\ disk = [items |-> (0 :> RowOf(answered.before)),
                       daily_stats |-> EmptyFn]
            /\ items = (0 :> answered.after)
            /\ call = [op |-> "update_item_after_session", item_id |-> 0,
                       updates |-> answered.after]

\* update_item_after_session: the write is committed, or sqlite3 raises
\* an error, which the method prints; it returns None in both cases
UpdateItemAfterSession ==
  /\ call.op = "update_item_after_session"
  /\ \E committed \in BOOLEAN :
       disk' = IF committed
               THEN [disk EXCEPT !.items[call.item_id] =
                                   UpdateRow(@, call.updates)]
               ELSE disk
  /\ call' = [op |-> "update_item_after_session_returned",
              item_id |-> call.item_id, updates |-> call.updates,
              raised |-> FALSE, result |-> "None"]
  /\ UNCHANGED <<items, daily_stats, today, elapsed_today, pc, cur, queue,
                 previous_key, learning_keys_for_session,
                 review_keys_for_session>>

NextDb == UpdateItemAfterSession

SpecDb == InitDb /\ [][NextDb]_vars

\* The end of the schedule.  The file holds one item that was read from a
\* file on day 0, promoted on that day and reviewed correctly on each due
\* date up to the last stage; the runs are those of the day its last
\* review falls due and of the MaxAfterLast days after it, in every mode,
\* with a second item added and MaxPairWrong incorrect answers in all.
RECURSIVE Reviewed(_)
Reviewed(n) ==
  IF n = 0 THEN OldPromoted(0)
  ELSE LET item == Reviewed(n - 1)
       IN  ReviewAnswer(item, TRUE, 0, item.next_review)

LastStageItem == Reviewed(Len(FORGETTING_SCHEDULE) - 1)

InitLast ==
  /\ daily_stats = EmptyFn
  /\ disk = [items |-> (0 :> LastStageItem), daily_stats |-> EmptyFn]
  /\ items = disk.items
  /\ today = LastStageItem.next_review
  /\ elapsed_today = 0
  /\ pc = "idle"
  /\ cur = NO_KEY
  /\ queue = {}
  /\ previous_key = NO_KEY
  /\ learning_keys_for_session = {}
  /\ review_keys_for_session = {}
  /\ call = NoCall

NextLast ==
  \/ StartRuns(today..(LastStageItem.next_review + MaxAfterLast), Modes, 2)
  \/ \E is_correct \in BOOLEAN :
       /\ is_correct \/ TotalWrong < MaxPairWrong
       /\ AnswerLearning(is_correct, 0)
  \/ \E is_correct \in BOOLEAN :
       /\ is_correct \/ TotalWrong < MaxPairWrong
       /\ AnswerReview(is_correct, 0)
  \/ EditNow(0)
  \/ EditBefore(0)
  \/ Pause(0)

SpecLast == InitLast /\ [][NextLast]_vars

\* DBManager.reset_daily_postponed_status on its own.  The table was filled
\* by migrate from the JSON file the command-line program wrote on day 1,
\* after its cap pass; the method is called for a day from 1 on.
\* SQL NULL: what migrate stores for a key the JSON item does not have
NULL == -4

\* the row migrate inserts for an item of the JSON file: the item has no
\* key next_review_date, a missing last_processed_date becomes NULL, the
\* flag becomes 0 or 1, and of the lists only history is copied
Migrate(item) ==
  [status |-> item.status, stage |-> item.stage,
   correct_streak |-> item.correct_streak,
   next_review_date |-> NULL, created_at |-> item.created_at,
   last_processed_date |-> IF item.last_processed_date = NO_DATE THEN NULL
                           ELSE item.last_processed_date,
   postponed |-> IF item.postponed THEN 1 ELSE 0,
   history |-> JsonDumps(item.history),
   response_times |-> JsonDumps(<<>>), error_ratios |-> JsonDumps(<<>>),
   review_log |-> JsonDumps(<<>>)]

\* SQL "a = b" and "a != b": unknown when an operand is NULL
SqlEq(a, b) ==
  IF a = NULL \/ b = NULL THEN "unknown" ELSE IF a = b THEN "true" ELSE "false"

SqlNe(a, b) ==
  IF a = NULL \/ b = NULL THEN "unknown" ELSE IF a # b THEN "true" ELSE "false"

\* SQL "p AND q" in three-valued logic
SqlAnd(p, q) ==
  IF p = "false" \/ q = "false" THEN "false"
  ELSE IF p = "true" /\ q = "true" THEN "true"
  ELSE "unknown"

\* WHERE postponed = 1 AND last_processed_date != ?: the rows it selects
\* are those for which the condition is true
ResetSelects(row, today_date) ==
  SqlAnd(SqlEq(row.postponed, 1),
         SqlNe(row.last_processed_date, today_date)) = "true"

InitReset ==
  /\ daily_stats = EmptyFn
  /\ elapsed_today = 0
  /\ pc = "idle"
  /\ cur = NO_KEY
  /\ queue = {}
  /\ previous_key = NO_KEY
  /\ learning_keys_for_session = {}
  /\ review_keys_for_session = {}
  /\ items = EmptyFn
  /\ \E n_old \in CapSizes, pattern \in {"learning", "review", "mixed"} :
       disk = [items |-> [k \in 0..(n_old - 1) |->
                            Migrate(OldStore(pattern, n_old)[k])],
               daily_stats |-> EmptyFn]
  /\ today \in 1..(1 + MaxLate)
  /\ call = [op |-> "reset_daily_postponed_status", today_date |-> today]

\* UPDATE items SET postponed = 0 WHERE postponed = 1
\*   AND last_processed_date != ?, committed
ResetDailyPostponedStatus ==
  /\ call.op = "reset_daily_postponed_status"
  /\ disk' = [disk EXCEPT !.items =
                [k \in DOMAIN @ |->
                   IF ResetSelects(@[k], call.today_date)
                   THEN [@[k] EXCEPT !.postponed = 0]
                   ELSE @[k]]]
  /\ call' = [op |-> "reset_daily_postponed_status_returned",
              today_date |-> call.today_date]
  /\ UNCHANGED <<items, daily_stats, today, elapsed_today, pc, cur, queue,
                 previous_key, learning_keys_for_session,
                 review_keys_for_session>>

NextReset == ResetDailyPostponedStatus

SpecReset == InitReset /\ [][NextReset]_vars

\* ------------------------------------------------------------------------
\* Properties
\* ------------------------------------------------------------------------
N == Len(FORGETTING_SCHEDULE)

\* item k receives an answer in this step: sym is appended to its history
Answered(k, sym) ==
  /\ k \in DOMAIN items
  /\ k \in DOMAIN items'
  /\ items'[k].history = Append(items[k].history, sym)

\* the last n symbols of history are all correct
LastAllCorrect(history, n) ==
  /\ Len(history) >= n
  /\ \A i \in (Len(history) - n + 1)..Len(history) : history[i] = "O"

HasWrong(history) == \E i \in DOMAIN history : history[i] = "X"

\* C1: every item in learning has stage 0 and every item in review has a
\* stage from 1 to N, in the running process and in the file, in every state
\* reachable from newly added items.
StageMatchesStatus ==
  \A its \in {items, disk.items} : \A k \in DOMAIN its :
    /\ its[k].status = "learning" => its[k].stage = 0
    /\ its[k].status = "review" => its[k].stage \in 1..N

\* an item that was demoted once has climbed to the last stage
StageMatchesStatusWitness ==
  \E k \in DOMAIN items :
    /\ items[k].status = "review"
    /\ items[k].stage = N
    /\ HasWrong(items[k].history)

\* C2 (as stated): an item is promoted from learning to review only by an
\* answer after which the last REQUIRED_STREAK symbols of its history are all
\* correct, and every answer in learning that completes such a run promotes.
PromotionOnFullStreak ==
  [][\A k \in DOMAIN items :
       /\ (/\ k \in DOMAIN items'
           /\ items[k].status = "learning"
           /\ items'[k].status = "review")
          => LastAllCorrect(items'[k].history, REQUIRED_STREAK)
       /\ (/\ items[k].status = "learning"
           /\ Answered(k, "O")
           /\ LastAllCorrect(items'[k].history, REQUIRED_STREAK))
          => items'[k].status = "review"]_vars

\* C3: a correct answer to a learning item whose streak then reaches
\* REQUIRED_STREAK leaves it in review at stage 1 with streak 0, due
\* FORGETTING_SCHEDULE[1] days after today; so does the last of
\* REQUIRED_STREAK correct answers in a row to a new item.
PromotionSetsReview ==
  [][\A k \in DOMAIN items :
       (/\ items[k].status = "learning"
        /\ Answered(k, "O")
        /\ \/ items[k].correct_streak + 1 >= REQUIRED_STREAK
           \/ items[k].history = [i \in 1..(REQUIRED_STREAK - 1) |-> "O"])
       => /\ items'[k].status = "review"
          /\ items'[k].stage = 1
          /\ items'[k].correct_streak = 0
          /\ items'[k].next_review = today + FORGETTING_SCHEDULE[1]]_vars

\* a new item has been answered correctly REQUIRED_STREAK times in a row
PromotionSetsReviewWitness ==
  \E k \in DOMAIN items :
    /\ items[k].history = [i \in 1..REQUIRED_STREAK |-> "O"]
    /\ items[k].status = "review"
    /\ items[k].next_review = today + FORGETTING_SCHEDULE[1]

ReviewIncorrectDemotes ==
  [][\A k \in DOMAIN items :
       (items[k].status = "review" /\ Answered(k, "X"))
       => /\ items'[k].status = "learning"
          /\ items'[k].stage = 0
          /\ items'[k].correct_streak = 0
          /\ items'[k].next_review = today]_vars

\* an item has been demoted from a stage above 1 by a late review
ReviewIncorrectDemotesWitness ==
  \E k \in DOMAIN items :
    LET log == items[k].review_log
    IN  /\ Len(log) >= 2
        /\ ~log[Len(log)].is_correct
        /\ log[Len(log)].actual_interval > 0
        /\ log[Len(log)].date = today
        /\ items[k].status = "learning"
        /\ items[k].history[Len(items[k].history)] = "X"

\* exp(-0.3 * (5 - r)) in millionths, rounded down
ExpDecayMillionths(r) ==
  CASE r = 5 -> 1000000
    [] r = 4 -> 740818
    [] r = 3 -> 548811
    [] r = 2 -> 406569
    [] r = 1 -> 301194
    [] OTHER -> 223130

\* max(1, floor(base * max(0.3, exp(-0.3 * (5 - r))) * (1 + days_late / base)))
\* over the reals: the product is max(0.3, exp(..)) * (base + days_late), and
\* its floor is that of the product with the factor in millionths while
\* base + days_late < 1370
ClaimedInterval(stage, r, days_late) ==
  LET base_days == FORGETTING_SCHEDULE[stage]
      factor    == Max(300000, ExpDecayMillionths(r))
  IN  Max(1, (factor * (base_days + days_late)) \div 1000000)

\* C6 (as stated): a correct answer to a review item below stage N raises
\* the stage by one and makes the item due ClaimedInterval days after today,
\* for the rating of the answer and the days the review was late.
ReviewCorrectAdvances ==
  [][\A k \in DOMAIN items :
       (/\ items[k].status = "review"
        /\ items[k].stage < N
        /\ Answered(k, "O"))
       => LET r         == estimate_r(items[k], TRUE, 0).r
              days_late == Max(0, today - items[k].next_review)
          IN  /\ items'[k].stage = items[k].stage + 1
              /\ items'[k].next_review =
                   today + ClaimedInterval(items[k].stage + 1, r, days_late)]_vars

IncorrectResetsStreak ==
  [][\A k \in DOMAIN items :
       Answered(k, "X") => items'[k].correct_streak = 0]_vars

\* C9: a correct answer to a learning item whose streak stays below
\* REQUIRED_STREAK raises the streak by one and leaves status, stage,
\* next_review and postponed as they were.
LearnCorrectBelowStreak ==
  [][\A k \in DOMAIN items :
       (/\ items[k].status = "learning"
        /\ Answered(k, "O")
        /\ items[k].correct_streak + 1 < REQUIRED_STREAK)
       => /\ items'[k].correct_streak = items[k].correct_streak + 1
          /\ items'[k].status = "learning"
          /\ items'[k].stage = 0
          /\ items'[k].status = items[k].status
          /\ items'[k].stage = items[k].stage
          /\ items'[k].next_review = items[k].next_review
          /\ items'[k].postponed = items[k].postponed]_vars

\* an item due since an earlier day has been answered correctly today for
\* the first time
LearnCorrectBelowStreakWitness ==
  \E k \in DOMAIN items :
    /\ items[k].history = <<"O">>
    /\ items[k].correct_streak = 1
    /\ items[k].last_processed_date = today
    /\ items[k].next_review < today

\* the length of the trailing run of correct symbols of history
TrailingRun(history) ==
  CHOOSE s \in 0..Len(history) :
    /\ \A i \in (Len(history) - s + 1)..Len(history) : history[i] = "O"
    /\ s < Len(history) => history[Len(history) - s] # "O"

ClaimedDue(its, date) ==
  {k \in DOMAIN its :
     \/ its[k].status = "learning" /\ its[k].correct_streak < REQUIRED_STREAK
     \/ /\ its[k].status = "review"
        /\ its[k].next_review # DONE
        /\ its[k].next_review <= date}

\* a comes before b in the order of the cap: learning items created today,
\* then older learning items by creation date, then review items
ClaimedBefore(a, b, date) ==
  LET class(it) == IF it.status = "review" THEN 2
                   ELSE IF it.created_at = date THEN 0 ELSE 1
  IN  \/ class(a) < class(b)
      \/ class(a) = 1 /\ class(b) = 1 /\ a.created_at < b.created_at

\* the cap pass has kept the first DAILY_TOTAL_LIMIT due items of its
CapKept(its, date) ==
  LET due  == ClaimedDue(its, date)
      kept == {k \in due : ~its[k].postponed}
  IN  Cardinality(due) > DAILY_TOTAL_LIMIT =>
        /\ Cardinality(due \ kept) = Cardinality(due) - DAILY_TOTAL_LIMIT
        /\ Cardinality(kept) = DAILY_TOTAL_LIMIT
        /\ \A k \in kept, j \in due \ kept :
             ~ClaimedBefore(its[j], its[k], date)
        /\ (\E k \in kept : its[k].status = "review")
             => \A j \in due : its[j].status = "learning" => j \in kept

\* C11: a run that starts with more than DAILY_TOTAL_LIMIT due items leaves
\* all but DAILY_TOTAL_LIMIT of them postponed, and the kept ones are the
\* first in the order: learning items created today, older learning items
\* by creation date, due review items; a review item is kept only if every
\* due learning item is.
CapKeepsFirst ==
  [][(FirstCapRun \/ SecondCapRun) => CapKept(disk'.items, today')]_vars

\* a pass has kept learning items of today and of earlier days and some of
\* the due review items, and postponed the other review items
CapKeepsFirstWitness ==
  LET its  == disk.items
      due  == ClaimedDue(its, today)
      kept == {k \in due : ~its[k].postponed}
  IN  /\ today = 2
      /\ Cardinality(due) > DAILY_TOTAL_LIMIT
      /\ \E k \in kept : its[k].status = "learning" /\ its[k].created_at = 2
      /\ \E k \in kept : its[k].status = "learning" /\ its[k].created_at < 2
      /\ \E k \in kept : its[k].status = "review"
      /\ \E k \in due \ kept : its[k].status = "review"

\* C13: the cap pass changes only the postponed flag: status, stage,
\* correct_streak, next_review and history of every item of the file are
\* after the run what they were before it.
CapPassFrame ==
  [][(FirstCapRun \/ SecondCapRun) =>
       \A k \in DOMAIN disk.items :
         /\ k \in DOMAIN disk'.items
         /\ disk'.items[k].status = disk.items[k].status
         /\ disk'.items[k].stage = disk.items[k].stage
         /\ disk'.items[k].correct_streak = disk.items[k].correct_streak
         /\ disk'.items[k].next_review = disk.items[k].next_review
         /\ disk'.items[k].history = disk.items[k].history]_vars

\* the pass has postponed an item of an earlier day that was not postponed
\* before: the store held no more than DAILY_TOTAL_LIMIT items then
CapPassFrameWitness ==
  LET its == disk.items
      old == {k \in DOMAIN its : its[k].created_at < 2}
  IN  /\ today = 2
      /\ Cardinality(old) <= DAILY_TOTAL_LIMIT
      /\ \E k \in old : its[k].postponed /\ its[k].status = "review"
      /\ \E k \in old : its[k].postponed /\ its[k].status = "learning"

\* item k of the file is postponed as a run starts and was not processed
\* on the day of the run
WasPostponed(k) ==
  /\ disk.items[k].postponed
  /\ disk.items[k].last_processed_date # today'
  /\ k \in DOMAIN disk'.items

\* C14: a run clears the postponed flag of every item whose
\* last_processed_date is not the day of the run (or is missing) before it
\* computes the due sets: after -delete-today such an item is not postponed,
\* and after a cap pass it is postponed only as one of the due items of
\* that day in excess of DAILY_TOTAL_LIMIT.
PostponedReset ==
  [][/\ DeleteRun =>
          \A k \in DOMAIN disk.items :
            WasPostponed(k) => ~disk'.items[k].postponed
     /\ (FirstCapRun \/ SecondCapRun) =>
          \A k \in DOMAIN disk.items :
            (WasPostponed(k) /\ disk'.items[k].postponed)
            => /\ k \in ClaimedDue(disk'.items, today')
               /\ Cardinality(ClaimedDue(disk'.items, today'))
                    > DAILY_TOTAL_LIMIT]_vars

\* -delete-today has cleared the flags the cap pass of the day before had
\* set: more than DAILY_TOTAL_LIMIT items are due and none is postponed
PostponedResetWitness ==
  LET its == disk.items
  IN  /\ today = 2
      /\ Cardinality(ClaimedDue(its, today)) > DAILY_TOTAL_LIMIT
      /\ \A k \in DOMAIN its : ~its[k].postponed
      /\ \E k \in DOMAIN its : its[k].last_processed_date = NO_DATE

\* the items answered in test_items on the day of the last run: an answer
\* there sets last_processed_date, and an item with an answer has had its
\* last answer in learning on that date
AnsweredToday(its, date) ==
  {k \in DOMAIN its :
     its[k].last_processed_date = date /\ its[k].history # <<>>}

\* C12 (as stated): over all runs of one day no more than DAILY_TOTAL_LIMIT
\* distinct items are presented for an answer; the items answered in the
\* learning rounds of the day are among those presented.
DailyLimitPerDay ==
  Cardinality(AnsweredToday(items, today)) <= DAILY_TOTAL_LIMIT

\* the due sets as the selection rule states them
ClaimedLearning(its) ==
  {k \in DOMAIN its :
     /\ its[k].status = "learning"
     /\ its[k].correct_streak < REQUIRED_STREAK
     /\ ~its[k].postponed}

ClaimedReview(its, date) ==
  {k \in DOMAIN its :
     /\ its[k].status = "review"
     /\ its[k].next_review # DONE
     /\ its[k].next_review <= date
     /\ ~its[k].postponed}

\* the step shows the first item of a pass: the run comes to its first
\* prompt, or the prompt answered was the last of its pass
PassStarts == pc' # "idle" /\ (pc = "idle" \/ queue = {})

\* C15: the items of every pass of the learning round are exactly the
\* items with status learning, correct_streak < REQUIRED_STREAK and not
\* postponed, the items of every pass of the review round exactly the
\* review items with next_review <= today and not postponed; the item shown
\* at a prompt is never postponed and, in the review round, never due after
\* today.
PresentedSets ==
  [][/\ PassStarts =>
          ({cur'} \cup queue') = IF pc' = "learn"
                                 THEN ClaimedLearning(items')
                                 ELSE ClaimedReview(items', today')
     /\ pc' = "learn" => cur' \in ClaimedLearning(items')
     /\ pc' = "review" => cur' \in ClaimedReview(items', today')]_vars

\* a learning pass over a demoted item while another item is postponed and
\* a review item is due after today
PresentedSetsWitness ==
  /\ pc = "learn"
  /\ CountWrong(items[cur].history) > 0
  /\ \E k \in DOMAIN items : items[k].postponed
  /\ \E k \in DOMAIN items :
       /\ items[k].status = "review"
       /\ items[k].next_review # DONE
       /\ items[k].next_review > today

\* no item of the store is due for the session
NoneDue(its, date) ==
  \A k \in DOMAIN its :
    ~its[k].postponed =>
      /\ its[k].status # "learning"
      /\ ~(/\ its[k].status = "review"
           /\ its[k].next_review # DONE
           /\ its[k].next_review <= date)

\* C16: a session ends without a pause exactly when both due sets are
\* empty: after every step that is not a pause the program has ended if and
\* only if no non-postponed item has status learning and no non-postponed
\* review item has next_review <= today; after a pause an item is still due.
LoopEndsWhenNoneDue ==
  [][/\ ~Pause(0) => (pc' = "idle" <=> NoneDue(items', today'))
     /\ Pause(0) => ~NoneDue(items', today')
     /\ pc' = "idle" => disk'.items = items']_vars

\* a session has ended with nothing due, after a demotion and with an item
\* still postponed
LoopEndsWhenNoneDueWitness ==
  /\ pc = "idle"
  /\ NoneDue(items, today)
  /\ \E k \in DOMAIN items : items[k].postponed
  /\ \E k \in DOMAIN items : CountWrong(items[k].history) > 0

\* C17: within one pass every item of the pass is shown exactly once: the
\* item shown is not among the items still to come, and as long as items
\* are to come the next prompt of the same pass shows one of them and
\* leaves the others to come; an edit command leaves the item shown as it
\* was, an answer is recorded once.
OncePerPass ==
  [][(pc # "idle" /\ ~Pause(0)) =>
       /\ cur \notin queue
       /\ queue # {} =>
            /\ pc' = pc
            /\ cur' \in queue
            /\ queue' = queue \ {cur'}
       /\ (EditNow(0) \/ EditBefore(0)) => items' = items
       /\ ~(EditNow(0) \/ EditBefore(0)) =>
            /\ Len(items'[cur].history) = Len(items[cur].history) + 1
            /\ \A k \in DOMAIN items \ {cur} : items'[k] = items[k]]_vars

\* the second item of a pass over two learning items is shown after an
\* edit command has skipped the first
OncePerPassWitness ==
  /\ pc = "learn"
  /\ queue = {}
  /\ previous_key = NO_KEY
  /\ Cardinality(ClaimedLearning(items)) = 2
  /\ \A k \in DOMAIN items : items[k].history = <<>>

\* C18 (as stated): every answer processed, in the learning round and in
\* the review round alike, sets last_processed_date of the item answered to
\* today.
AnswerSetsProcessedDate ==
  [][(\E is_correct \in BOOLEAN :
        AnswerLearning(is_correct, 0) \/ AnswerReview(is_correct, 0))
     => items'[cur].last_processed_date = today]_vars

\* C19 (as stated): every answer appends to error_ratios the share of
\* incorrect answers in the history up to and including that answer, so
\* that error_ratios is as long as history; the i-th ratio times i is the
\* number of incorrect answers among the first i.
ErrorRatiosFollowHistory ==
  \A k \in DOMAIN items :
    /\ Len(items[k].error_ratios) = Len(items[k].history)
    /\ \A i \in 1..Len(items[k].history) :
         items[k].error_ratios[i] * i
           = CountWrong(SubSeq(items[k].history, 1, i))

\* the symbol history records for an answer
Outcome(is_correct) == IF is_correct THEN "O" ELSE "X"

\* C20: history and response_times only grow at their ends: an answer
\* appends its outcome symbol to the history of the item shown and its
\* elapsed time to the response times, no other step changes either list of
\* an item, and the two lists of every item have the same length.
HistoryAppendOnly ==
  [][/\ \A is_correct \in BOOLEAN, elapsed \in 0..1 :
          (AnswerLearning(is_correct, elapsed)
             \/ AnswerReview(is_correct, elapsed))
          => /\ items'[cur].history
                  = Append(items[cur].history, Outcome(is_correct))
             /\ items'[cur].response_times
                  = Append(items[cur].response_times, elapsed)
     /\ \A k \in DOMAIN items \cap DOMAIN items' :
          \/ /\ items'[k].history = items[k].history
             /\ items'[k].response_times = items[k].response_times
          \/ /\ k = cur
             /\ \E is_correct \in BOOLEAN, elapsed \in 0..1 :
                  AnswerLearning(is_correct, elapsed)
                    \/ AnswerReview(is_correct, elapsed)
     /\ \A k \in DOMAIN items' :
          Len(items'[k].history) = Len(items'[k].response_times)]_vars

\* the session was paused after a correct and an incorrect answer, each
\* with its time kept
HistoryAppendOnlyWitness ==
  /\ pc = "idle"
  /\ \E k \in DOMAIN items :
       /\ items[k].status = "learning"
       /\ ~items[k].postponed
       /\ \E i, j \in 1..Len(items[k].history) :
            items[k].history[i] = "O" /\ items[k].history[j] = "X"
       /\ \A i \in 1..Len(items[k].response_times) :
            items[k].response_times[i] = 1

\* C21 (as stated): every answer in the review round, correct below the
\* last stage, correct at the last stage or incorrect, appends exactly one
\* entry to review_log of the item answered; an answer in the learning
\* round appends none.
ReviewLogPerReview ==
  [][/\ (\E is_correct \in BOOLEAN : AnswerReview(is_correct, 0))
          => Len(items'[cur].review_log) = Len(items[cur].review_log) + 1
     /\ (\E is_correct \in BOOLEAN : AnswerLearning(is_correct, 0))
          => items'[cur].review_log = items[cur].review_log]_vars

\* C22 (as stated): whenever a question is shown, the file holds every
\* item as it is in memory: each answer has been written before the next
\* item is presented.
FlushedBeforeNextItem ==
  pc # "idle" =>
    /\ DOMAIN disk.items = DOMAIN items
    /\ \A k \in DOMAIN items : disk.items[k] = items[k]

\* C23: !pause at a prompt ends the process with the file holding every
\* item as it was in memory at the prompt, the item shown unchanged, and
\* today's record of daily_stats equal to the seconds accumulated so far
\* plus the time spent at the paused prompt; the other records are kept.
PauseFlushes ==
  [][Pause(1) =>
       /\ pc' = "idle"
       /\ disk'.items = items
       /\ DOMAIN disk'.daily_stats = DOMAIN daily_stats \cup {today}
       /\ disk'.daily_stats[today] = elapsed_today + 1
       /\ \A d \in DOMAIN daily_stats \ {today} :
            disk'.daily_stats[d] = daily_stats[d]]_vars

\* paused at the second item of a pass after the first was answered: the
\* file holds the answer and the two seconds
PauseFlushesWitness ==
  /\ pc = "idle"
  /\ DOMAIN disk.daily_stats = {today}
  /\ disk.daily_stats[today] = 2
  /\ \E j, k \in DOMAIN disk.items :
       /\ Len(disk.items[j].history) = 1
       /\ disk.items[k].history = <<>>
       /\ disk.items[k].status = "learning"

\* C24: for a review on time the interval computed does not shrink as
\* the rating grows from 1 to 3 to 5, at every stage of the schedule: the
\* interval returned for a rating is at least the one of every lower rating
\* among 1, 3 and 5.
IntervalMonotoneInRating ==
  (/\ call.op = "final_interval_returned"
   /\ call.days_late = 0
   /\ call.r \in {1, 3, 5})
  => \A r \in {1, 3, 5} :
       r <= call.r => FinalInterval(call.stage, r, 0) <= call.result

\* the last stage with the rating 5: the full 120 days, against 65 days
\* with the rating 3
IntervalMonotoneInRatingWitness ==
  /\ call.op = "final_interval_returned"
  /\ call.days_late = 0
  /\ call.r = 5
  /\ call.stage = Len(FORGETTING_SCHEDULE)
  /\ call.result > FinalInterval(call.stage, 3, 0)
  /\ FinalInterval(call.stage, 3, 0) > FinalInterval(call.stage, 1, 0)

\* C25: for a fixed rating and stage the interval does not shrink as the
\* review is more days late: the interval returned is at least the one of
\* the review one day less late.
IntervalMonotoneInLateness ==
  (call.op = "final_interval_returned" /\ call.days_late > 0)
  => FinalInterval(call.stage, call.r, call.days_late - 1) <= call.result

\* a review MaxDaysLate days late gets a longer interval than the review
\* on time
IntervalMonotoneInLatenessWitness ==
  /\ call.op = "final_interval_returned"
  /\ call.days_late = MaxDaysLate
  /\ call.result > FinalInterval(call.stage, call.r, 0)

\* the item is as the claim has a new item of the day
ClaimedNew(it, date) ==
  /\ it.status = "learning"
  /\ it.stage = 0
  /\ it.correct_streak = 0
  /\ it.next_review = date
  /\ it.created_at = date
  /\ ~it.postponed
  /\ it.history = <<>>

\* C26: a run that adds n question/answer pairs, from a file or at the
\* prompt, leaves n more items in memory and in the file: each under an id
\* no item had, in learning at stage 0 with streak 0, due and created
\* today, not postponed, with an empty history; the items there were are
\* as they were.
AddCreatesNewItems ==
  [][\A d \in 0..MaxNextDay, mode \in {"normal", "today"}, n \in 0..2,
        from_file \in BOOLEAN :
       StartRun(d, mode, n, from_file, FALSE) =>
         LET old == disk.items
             new == disk'.items
         IN  /\ DOMAIN old \subseteq DOMAIN new
             /\ Cardinality(DOMAIN new \ DOMAIN old) = n
             /\ \A k \in DOMAIN new \ DOMAIN old : ClaimedNew(new[k], today')
             /\ \A k \in DOMAIN old : new[k] = old[k]
             /\ items' = new]_vars

\* an item added on the day after an item that has been answered
AddCreatesNewItemsWitness ==
  /\ today > 0
  /\ \E j, k \in DOMAIN disk.items :
       /\ disk.items[j].created_at < today
       /\ disk.items[j].history # <<>>
       /\ j < k
       /\ ClaimedNew(disk.items[k], today)

DailyStatsMonotone ==
  [][/\ DOMAIN disk.daily_stats \subseteq DOMAIN disk'.daily_stats
     /\ \A d \in DOMAIN disk.daily_stats :
          /\ disk'.daily_stats[d] >= disk.daily_stats[d]
          /\ d # today' => disk'.daily_stats[d] = disk.daily_stats[d]]_vars

\* a session of a later day was paused: the file holds its seconds beside
\* the record of the first day, on which an item was promoted
DailyStatsMonotoneWitness ==
  /\ pc = "idle"
  /\ today > 0
  /\ DOMAIN disk.daily_stats = 0..today
  /\ disk.daily_stats[0] >= REQUIRED_STREAK
  /\ disk.daily_stats[today] >= 2
  /\ \E k \in DOMAIN disk.items :
       disk.items[k].status = "learning" /\ disk.items[k].history = <<>>

\* C29: in every state an item in learning has a streak of at least 0
\* and less than REQUIRED_STREAK, and an item in review has the streak 0,
\* in memory and in the file.
StreakWithinStatus ==
  \A its \in {items, disk.items} :
    \A k \in DOMAIN its :
      /\ its[k].status \in {"learning", "review"}
      /\ its[k].status = "learning" =>
           0 <= its[k].correct_streak /\ its[k].correct_streak < REQUIRED_STREAK
      /\ its[k].status = "review" => its[k].correct_streak = 0

\* an item demoted from review stands one answer before its promotion,
\* after an incorrect answer at streak 0
StreakWithinStatusWitness ==
  \E k \in DOMAIN items :
    /\ items[k].status = "learning"
    /\ items[k].correct_streak = REQUIRED_STREAK - 1
    /\ items[k].review_log # <<>>
    /\ \E i \in 1..(Len(items[k].history) - 1) :
         items[k].history[i] = "X" /\ items[k].history[i + 1] = "X"

\* C30 (as stated): when update_item_after_session returns without an
\* error for the caller, the write was committed: the row of the item holds
\* what memory holds; a write that failed reaches the caller as an error.
UpdateFailureSurfaced ==
  (call.op = "update_item_after_session_returned" /\ ~call.raised)
  => disk.items[call.item_id] = RowOf(items[call.item_id])

\* C31: the due sets the session loop computes hold no more than
\* DAILY_TOTAL_LIMIT items, learning and review together, every time they
\* are computed, and at every prompt no more than DAILY_TOTAL_LIMIT items
\* are due and not postponed.
DueSetsWithinLimit ==
  pc # "idle" =>
    /\ Cardinality(learning_keys_for_session \cup review_keys_for_session)
         <= DAILY_TOTAL_LIMIT
    /\ Cardinality(ClaimedLearning(items) \cup ClaimedReview(items, today))
         <= DAILY_TOTAL_LIMIT

\* the sets were computed again after a demotion, with an item postponed:
\* the demoted item is the learning set, the store holds more than
\* DAILY_TOTAL_LIMIT items
DueSetsWithinLimitWitness ==
  /\ pc = "learn"
  /\ learning_keys_for_session = {cur}
  /\ items[cur].review_log # <<>>
  /\ Cardinality(DOMAIN items) > DAILY_TOTAL_LIMIT
  /\ \E k \in DOMAIN items : items[k].postponed

\* item k has had its last review: a correct answer at the last stage
Memorized(k) ==
  /\ items[k].status = "review"
  /\ items[k].stage = Len(FORGETTING_SCHEDULE)
  /\ items[k].next_review = DONE

\* C32: an item that was answered correctly at the last stage is never
\* again among the due items of the cap pass or in a set of the session,
\* never shown at a prompt, on the same or a later day, and stays in
\* memory and in the file as the answer left it.
MemorizedIsFinal ==
  [][\A k \in DOMAIN items :
       Memorized(k) =>
         /\ k \in DOMAIN items' /\ items'[k] = items[k]
         /\ k \in DOMAIN disk'.items /\ disk'.items[k] = items[k]
         /\ k \notin CombinedDue(disk'.items, today')
         /\ k \notin ClaimedDue(disk'.items, today')
         /\ k \notin learning_keys_for_session' \cup review_keys_for_session'
         /\ k \notin queue'
         /\ cur' # k]_vars

\* a session of a later day is at the prompt of the second item while the
\* first is memorized
MemorizedIsFinalWitness ==
  /\ pc # "idle"
  /\ today > LastStageItem.next_review
  /\ \E k \in DOMAIN items : Memorized(k) /\ k # cur

\* C33: a correct answer that leaves an item in review with a due date,
\* the promotion or a correct review below the last stage, makes it due
\* after today; and an item shown in the review round has not been
\* answered in a review round earlier on the day.
ReviewOncePerDay ==
  [][/\ \A k \in DOMAIN items :
          (/\ Answered(k, "O")
           /\ items'[k].status = "review"
           /\ items'[k].next_review # DONE)
          => items'[k].next_review > today
     /\ pc' = "review" =>
          \A i \in 1..Len(items'[cur'].review_log) :
            items'[cur'].review_log[i].date < today']_vars

\* an item demoted in the review round is promoted again on the same day
\* and due the day after
ReviewOncePerDayWitness ==
  \E k \in DOMAIN items :
    LET log == items[k].review_log
    IN  /\ items[k].status = "review"
        /\ log # <<>>
        /\ log[Len(log)].date = today
        /\ ~log[Len(log)].is_correct
        /\ items[k].last_processed_date = today
        /\ items[k].next_review = today + 1

\* C34: no step lowers the stage of an item, except an incorrect answer
\* to an item in review, which sets it to 0; an incorrect answer to an item
\* in learning finds the stage at 0 and leaves it there.
StageNeverDecreases ==
  [][\A k \in DOMAIN items \cap DOMAIN items' :
       /\ (items[k].status = "review" /\ Answered(k, "X"))
            => items'[k].stage = 0
       /\ (items[k].status = "learning" /\ Answered(k, "X"))
            => items[k].stage = 0 /\ items'[k].stage = 0
       /\ ~(items[k].status = "review" /\ Answered(k, "X"))
            => items'[k].stage >= items[k].stage]_vars

\* an item that had reached stage 3 or more is back in learning at stage 0
StageNeverDecreasesWitness ==
  \E k \in DOMAIN items :
    LET log == items[k].review_log
    IN  /\ items[k].status = "learning"
        /\ items[k].stage = 0
        /\ Len(log) >= 3
        /\ ~log[Len(log)].is_correct
        /\ log[Len(log) - 1].is_correct
        /\ log[Len(log) - 2].is_correct

\* the step comes to the first prompt of a review round
ReviewRoundStarts == pc' = "review" /\ (pc # "review" \/ queue = {})

\* C35: a review round starts only when the learning round is over: at its
\* first prompt no item that is not postponed has status learning; and
\* while the review round has items to come no learning item is shown, so
\* that an item demoted in the round is shown for learning only after the
\* round, in the next turn of the loop.
LearningBeforeReview ==
  [][/\ ReviewRoundStarts =>
          \A k \in DOMAIN items' :
            items'[k].status = "learning" => items'[k].postponed
     /\ (pc = "review" /\ queue # {}) => pc' # "learn"
     /\ (pc = "review" /\ pc' = "learn") =>
          /\ queue = {}
          /\ {cur'} \cup queue' = learning_keys_for_session']_vars

\* the review round goes on after a demotion: the demoted item waits in
\* learning, not postponed, while another item is postponed
LearningBeforeReviewWitness ==
  /\ pc = "review"
  /\ \E k \in DOMAIN items :
       /\ items[k].status = "learning"
       /\ ~items[k].postponed
       /\ items[k].review_log # <<>>
  /\ \E k \in DOMAIN items : items[k].postponed


\* C36 (as stated): reset_daily_postponed_status(today) clears the flag of
\* every row that has postponed = 1 and a last_processed_date other than
\* today, a row whose last_processed_date is NULL included, and changes
\* nothing else.
ResetClearsStaleFlags ==
  [][ResetDailyPostponedStatus =>
       \A k \in DOMAIN disk.items :
         disk'.items[k] =
           IF disk.items[k].postponed = 1
                /\ disk.items[k].last_processed_date # call.today_date
           THEN [disk.items[k] EXCEPT !.postponed = 0]
           ELSE disk.items[k]]_vars


\* C37: an item is promoted with its last two answers or more correct, and
\* every correct answer given in review is rated 4 or 5: the first review
\* after a promotion 4 or 5, every correct review after a correct review 5;
\* the rating is the one written to the review log.
CorrectReviewRatedHigh ==
  [][\A k \in DOMAIN items \cap DOMAIN items' :
       /\ (items[k].status = "learning" /\ items'[k].status = "review")
            => TrailingRun(items'[k].history) >= 2
       /\ (items[k].status = "review" /\ Answered(k, "O")) =>
            /\ estimate_r(items[k], TRUE, 0).r \in {4, 5}
            /\ items[k].stage > 1 => estimate_r(items[k], TRUE, 0).r = 5
            /\ Len(items'[k].review_log) > Len(items[k].review_log) =>
                 items'[k].review_log[Len(items'[k].review_log)].r
                   = estimate_r(items[k], TRUE, 0).r]_vars

\* an item promoted right after an error and two correct answers has had
\* its first review rated 4 and its second rated 5
CorrectReviewRatedHighWitness ==
  \E k \in DOMAIN items :
    LET log == items[k].review_log
        h   == items[k].history
    IN  /\ items[k].status = "review"
        /\ Len(log) >= 2
        /\ log[Len(log)].is_correct /\ log[Len(log)].r = 5
        /\ log[Len(log) - 1].is_correct /\ log[Len(log) - 1].r = 4
        /\ Len(h) >= 5
        /\ h[Len(h) - 4] = "X"


\* the session has ended with nothing left to ask today
NothingLeft ==
  /\ pc = "idle"
  /\ \A k \in DOMAIN items :
       ~items[k].postponed =>
         /\ items[k].status = "review"
         /\ ~IsDueReview(items[k], today)

\* C38: when answers only are typed and from some point on every answer is
\* correct, every session ends with nothing left to ask: a correct answer to a learning item
\* promotes it or adds 1 to a streak below REQUIRED_STREAK, so that
\* REQUIRED_STREAK passes are enough, and a correct answer to a review item
\* leaves it not due; an incorrect answer never promotes, so that with
\* answers that alternate the streak comes back to where it was.
SessionTerminates ==
  /\ pc # "idle" ~> NothingLeft
  /\ [][\A k \in DOMAIN items \cap DOMAIN items' :
          /\ (items[k].status = "learning" /\ Answered(k, "O")) =>
               \/ items'[k].status = "review"
               \/ /\ items'[k].correct_streak = items[k].correct_streak + 1
                  /\ items'[k].correct_streak < REQUIRED_STREAK
          /\ (items[k].status = "review" /\ Answered(k, "O")) =>
               ~IsDueReview(items'[k], today)
          /\ (items[k].status = "learning" /\ Answered(k, "X")) =>
               /\ items'[k].status = "learning"
               /\ items'[k].correct_streak
                    = Max(0, items[k].correct_streak - 1)]_vars

\* a session of two items has ended with nothing left after an incorrect
\* answer and the correct ones that followed it
SessionTerminatesWitness ==
  /\ NothingLeft
  /\ Cardinality(DOMAIN items) = 2
  /\ \E k \in DOMAIN items :
       \E i \in 1..Len(items[k].history) : items[k].history[i] = "X"

====
